---- MODULE Spec2Model ----
(***************************************************************************)
(* A model of tools/format_commit.py and tools/lint_commit.py: the commit  *)
(* message formatter (format_message), the validator (lint_message) and    *)
(* the pipeline that feeds the formatter's text to the validator.          *)
(*                                                                         *)
(* A Python str is a sequence of one-character strings; a list[str] is a   *)
(* sequence of such sequences.  The model's alphabet holds one line        *)
(* boundary ("\n") and three whitespace characters (" ", "\t", "\n").      *)
(***************************************************************************)
EXTENDS Integers, Sequences, FiniteSets, TLC

VARIABLES
    subject,        \* format_message argument: str
    context,        \* format_message argument: list[str]
    enables,        \* format_message argument: list[str]
    changes,        \* format_message argument: list[str]
    deferred,       \* format_message argument: list[str]
    oracle,         \* what the file system and git answer for a path candidate
    pc,             \* position in format_message / lint_message
    item,           \* index of the next entry of the list being looped over
    context_lines,  \* format_message local
    enable_lines,   \* format_message local
    change_lines,   \* format_message local
    deferred_lines, \* format_message local
    queries,        \* the file-system and git queries made so far, in order
    error,          \* the ValueError format_message raised, if any
    text,           \* the text format_message returned / the text given to lint_message
    verdict         \* what lint_message returned

vars == <<subject, context, enables, changes, deferred, oracle, pc, item,
          context_lines, enable_lines, change_lines, deferred_lines,
          queries, error, text, verdict>>

----------------------------------------------------------------------------
(* Characters and the str methods the two tools use.                        *)

NL == "\n"
TAB == "\t"
SP == " "

\* str.isspace() on one character of the alphabet
IsSpace(c) == c \in {SP, TAB, NL}

RECURSIVE lstrip(_)
lstrip(s) == IF s # <<>> /\ IsSpace(Head(s)) THEN lstrip(Tail(s)) ELSE s

RECURSIVE rstrip(_)
rstrip(s) ==
    IF s # <<>> /\ IsSpace(s[Len(s)]) THEN rstrip(SubSeq(s, 1, Len(s) - 1)) ELSE s

\* str.strip()
strip(s) == lstrip(rstrip(s))

\* str.startswith(prefix)
startswith(s, prefix) ==
    Len(s) >= Len(prefix) /\ SubSeq(s, 1, Len(prefix)) = prefix

\* str.endswith(suffix)
endswith(s, suffix) ==
    Len(s) >= Len(suffix) /\ SubSeq(s, Len(s) - Len(suffix) + 1, Len(s)) = suffix

\* str.find(sub), 1-based; 0 when sub does not occur
find(s, sub) ==
    LET hits == {k \in 1..(Len(s) - Len(sub) + 1) :
                    SubSeq(s, k, k + Len(sub) - 1) = sub}
    IN  IF hits = {} THEN 0 ELSE CHOOSE k \in hits : \A j \in hits : k <= j

\* sub in s
contains(s, sub) == find(s, sub) # 0

\* s.split(sep, 1) when sep occurs in s: the text before and after its first occurrence
split1(s, sep) ==
    LET k == find(s, sep)
    IN  <<SubSeq(s, 1, k - 1), SubSeq(s, k + Len(sep), Len(s))>>

\* str.splitlines(): a line ends at each "\n"; no empty last line after a final "\n"
RECURSIVE splitlines(_)
splitlines(s) ==
    IF s = <<>> THEN <<>>
    ELSE LET k == find(s, <<NL>>)
         IN  IF k = 0 THEN <<s>>
             ELSE <<SubSeq(s, 1, k - 1)>> \o splitlines(SubSeq(s, k + 1, Len(s)))

\* "\n".join(lines)
RECURSIVE join(_)
join(lines) ==
    IF lines = <<>> THEN <<>>
    ELSE IF Len(lines) = 1 THEN lines[1]
    ELSE lines[1] \o <<NL>> \o join(Tail(lines))

\* list.index(x, start), 1-based; 0 for Python's ValueError
index(lines, x, start) ==
    LET hits == {k \in start..Len(lines) : lines[k] = x}
    IN  IF hits = {} THEN 0 ELSE CHOOSE k \in hits : \A j \in hits : k <= j

----------------------------------------------------------------------------
(* The grammar's constants.                                                 *)

MAX_CONTEXT_LINES == 8

LINT_MAX_CONTEXT_LINES == 8

H_Context == <<"C","o","n","t","e","x","t",":">>
H_Enables == <<"W","h","a","t"," ","t","h","i","s"," ","e","n","a","b","l","e","s",":">>
H_Changes == <<"C","h","a","n","g","e","s"," ","(","b","y"," ","f","i","l","e",")",":">>
H_Deferred == <<"D","e","f","e","r","r","e","d",":">>

\* lint_message's headers list: the header line, its name in a diagnostic, the
\* section label its validator reports, and whether its bullets need a colon
headers ==
    << [line |-> H_Context,  name |-> "Context:",           label |-> "Context",
        bullets |-> FALSE, require_colon |-> FALSE],
       [line |-> H_Enables,  name |-> "What this enables:", label |-> "What this enables",
        bullets |-> TRUE,  require_colon |-> FALSE],
       [line |-> H_Changes,  name |-> "Changes (by file):", label |-> "Changes",
        bullets |-> TRUE,  require_colon |-> TRUE],
       [line |-> H_Deferred, name |-> "Deferred:",          label |-> "Deferred",
        bullets |-> TRUE,  require_colon |-> FALSE] >>

\* A diagnostic: the kind of violation and the header, label or field it names
Reason(kind, arg) == [kind |-> kind, arg |-> arg]
Ok == Reason("Ok", "")
NotRun == Reason("NotRun", "")

----------------------------------------------------------------------------
(* tools/lint_commit.py                                                     *)

RECURSIVE strip_trailing_blanks(_)
strip_trailing_blanks(lines) ==
    IF lines # <<>> /\ lines[Len(lines)] = <<>>
    THEN strip_trailing_blanks(SubSeq(lines, 1, Len(lines) - 1))
    ELSE lines

RECURSIVE strip_trailing_section_blanks(_)
strip_trailing_section_blanks(lines) ==
    IF lines # <<>> /\ lines[Len(lines)] = <<>>
    THEN LET r == strip_trailing_section_blanks(SubSeq(lines, 1, Len(lines) - 1))
         IN  [trimmed |-> r.trimmed, count |-> r.count + 1]
    ELSE [trimmed |-> lines, count |-> 0]

\* the for loop of _validate_context_section, from line k on
RECURSIVE context_scan(_, _, _, _)
context_scan(lines, k, blank_run, non_empty) ==
    IF k > Len(lines)
    THEN IF non_empty > LINT_MAX_CONTEXT_LINES
         THEN Reason("ContextTooLong", "Context") ELSE Ok
    ELSE IF strip(lines[k]) # <<>>
         THEN context_scan(lines, k + 1, 0, non_empty + 1)
         ELSE IF blank_run + 1 > 1
              THEN Reason("ConsecutiveBlankLines", "Context")
              ELSE context_scan(lines, k + 1, blank_run + 1, non_empty)

validate_context_section(lines) ==
    IF lines = <<>> THEN Reason("NoContextLine", "Context")
    ELSE IF lines[1] = <<>> \/ lines[Len(lines)] = <<>>
         THEN Reason("LeadingOrTrailingBlank", "Context")
         ELSE context_scan(lines, 1, 0, 0)

\* a variant that takes only two spaces, and no tab, as the mark of a continuation
is_continuation_spaces(line) == startswith(line, <<SP, SP>>)

\* line 78: the line is indented as a continuation line is
is_continuation(line) == startswith(line, <<SP, SP>>) \/ startswith(line, <<TAB>>)

\* the for loop of _validate_bullet_section, from line k on
RECURSIVE bullet_scan(_, _, _, _, _, _)
bullet_scan(lines, section_label, require_colon, k, bullet_count, in_bullet) ==
    IF k > Len(lines)
    THEN IF bullet_count = 0 THEN Reason("NoBullet", section_label) ELSE Ok
    ELSE LET line == lines[k] IN
         IF line = <<>> THEN Reason("BlankLineInSection", section_label)
         ELSE IF startswith(line, <<"-", SP>>)
         THEN LET content == SubSeq(line, 3, Len(line)) IN
              IF strip(content) = <<>> THEN Reason("EmptyBullet", section_label)
              ELSE IF require_colon /\ ~contains(content, <<":">>)
              THEN Reason("BadChangeFormat", section_label)
              ELSE IF require_colon
                      /\ (strip(split1(content, <<":">>)[1]) = <<>>
                          \/ strip(split1(content, <<":">>)[2]) = <<>>)
              THEN Reason("BadChangeFormat", section_label)
              ELSE bullet_scan(lines, section_label, require_colon, k + 1,
                               bullet_count + 1, TRUE)
         ELSE IF is_continuation(line)
         THEN IF ~in_bullet THEN Reason("OrphanContinuation", section_label)
              ELSE IF strip(line) = <<>> THEN Reason("EmptyContinuation", section_label)
              ELSE bullet_scan(lines, section_label, require_colon, k + 1,
                               bullet_count, in_bullet)
         ELSE Reason("BadLineFormat", section_label)

validate_bullet_section(lines, section_label, require_colon) ==
    IF lines = <<>> THEN Reason("NoBullet", section_label)
    ELSE bullet_scan(lines, section_label, require_colon, 1, 0, FALSE)

\* headers[i]'s validator applied to a section body
validator(i, section_lines) ==
    IF headers[i].bullets
    THEN validate_bullet_section(section_lines, headers[i].label, headers[i].require_colon)
    ELSE validate_context_section(section_lines)

\* one iteration of lint_message's loop after the body has been cut out:
\* the empty-section check and the section's validator
section_body_check(i, section_lines) ==
    IF section_lines = <<>> THEN Reason("EmptySection", headers[i].name)
    ELSE validator(i, section_lines)

\* line 133, negated: the header is at idx
header_at(lines, idx, i) == idx <= Len(lines) /\ lines[idx] = headers[i].line

\* a variant that lets any number of blank lines, one at least, separate sections
separator_ok_atleast(separator_blanks) == separator_blanks >= 1

\* line 144, negated: the number of blank lines before the next header is accepted
separator_ok(separator_blanks) == separator_blanks = 1

\* a variant that validates the body before it looks at the next header's separator
section_check_bodyfirst(lines, i, start) ==
    IF i + 1 <= Len(headers)
    THEN LET next_idx == index(lines, headers[i + 1].line, start) IN
         IF next_idx = 0
         THEN [error |-> Reason("MissingHeader", headers[i + 1].name), idx |-> 0]
         ELSE LET cut == strip_trailing_section_blanks(SubSeq(lines, start, next_idx - 1)) IN
              IF section_body_check(i, cut.trimmed) # Ok
              THEN [error |-> section_body_check(i, cut.trimmed), idx |-> 0]
              ELSE IF cut.count # 1
              THEN [error |-> Reason("BadSeparator", ""), idx |-> 0]
              ELSE [error |-> Ok, idx |-> next_idx]
    ELSE [error |-> section_body_check(i, SubSeq(lines, start, Len(lines))),
          idx |-> Len(lines) + 1]

\* lines 136-156 of lint_message's loop for header i, whose body starts at line
\* start: the reason it fails with (Ok if none) and idx for the next header
section_check(lines, i, start) ==
    IF i + 1 <= Len(headers)
    THEN LET next_idx == index(lines, headers[i + 1].line, start) IN
         IF next_idx = 0
         THEN [error |-> Reason("MissingHeader", headers[i + 1].name), idx |-> 0]
         ELSE LET cut == strip_trailing_section_blanks(SubSeq(lines, start, next_idx - 1)) IN
              IF ~separator_ok(cut.count)
              THEN [error |-> Reason("BadSeparator", ""), idx |-> 0]
              ELSE [error |-> section_body_check(i, cut.trimmed), idx |-> next_idx]
    ELSE [error |-> section_body_check(i, SubSeq(lines, start, Len(lines))),
          idx |-> Len(lines) + 1]

\* lint_message's loop over headers, from header i with idx at line idx (1-based)
RECURSIVE lint_sections(_, _, _)
lint_sections(lines, i, idx) ==
    IF i > Len(headers) THEN Ok
    ELSE IF ~header_at(lines, idx, i) THEN Reason("MissingHeader", headers[i].name)
    ELSE LET r == section_check(lines, i, idx + 1) IN
         IF r.error # Ok THEN r.error ELSE lint_sections(lines, i + 1, r.idx)

lint_message(t) ==
    LET lines == strip_trailing_blanks(splitlines(t)) IN
    IF lines = <<>> THEN Reason("EmptyMessage", "")
    ELSE IF strip(lines[1]) = <<>> THEN Reason("EmptySubject", "")
    ELSE IF Len(lines) < 3 \/ lines[2] # <<>> THEN Reason("MissingBlankAfterSubject", "")
    ELSE lint_sections(lines, 1, 3)

----------------------------------------------------------------------------
(* tools/format_commit.py                                                   *)

\* while lines and not lines[0].strip(): lines.pop(0)
RECURSIVE drop_leading_blank(_)
drop_leading_blank(lines) ==
    IF lines # <<>> /\ strip(lines[1]) = <<>> THEN drop_leading_blank(Tail(lines)) ELSE lines

\* while lines and not lines[-1].strip(): lines.pop()
RECURSIVE drop_trailing_blank(_)
drop_trailing_blank(lines) ==
    IF lines # <<>> /\ strip(lines[Len(lines)]) = <<>>
    THEN drop_trailing_blank(SubSeq(lines, 1, Len(lines) - 1))
    ELSE lines

\* the first loop of _split_context_lines: every entry's lines, right-stripped
RECURSIVE context_raw_lines(_)
context_raw_lines(entries) ==
    IF entries = <<>> THEN <<>>
    ELSE LET ls == splitlines(entries[1])
         IN  [k \in 1..Len(ls) |-> rstrip(ls[k])] \o context_raw_lines(Tail(entries))

\* the second loop of _split_context_lines, from line k on
RECURSIVE context_clean(_, _, _, _, _)
context_clean(lines, k, cleaned, blank_run, non_empty) ==
    IF k > Len(lines)
    THEN IF non_empty > MAX_CONTEXT_LINES
         THEN [error |-> Reason("ContextTooLong", "--context"), lines |-> <<>>]
         ELSE [error |-> Ok, lines |-> cleaned]
    ELSE IF strip(lines[k]) = <<>>
         THEN IF blank_run + 1 > 1
              THEN [error |-> Reason("ConsecutiveBlankLines", "--context"), lines |-> <<>>]
              ELSE context_clean(lines, k + 1, Append(cleaned, <<>>), blank_run + 1, non_empty)
         ELSE context_clean(lines, k + 1, Append(cleaned, strip(lines[k])), 0, non_empty + 1)

split_context_lines(entries) ==
    LET lines == drop_trailing_blank(drop_leading_blank(context_raw_lines(entries))) IN
    IF lines = <<>>
    THEN [error |-> Reason("EmptyContext", "--context"), lines |-> <<>>]
    ELSE context_clean(lines, 1, <<>>, 0, 0)

\* the marker removal of _split_item_lines: first = lines[0].strip(), less a leading "- "
item_first(line) ==
    LET first == strip(line)
    IN  IF startswith(first, <<"-", SP>>) THEN strip(SubSeq(first, 3, Len(first))) ELSE first

split_item_lines(entry, label) ==
    LET lines == drop_trailing_blank(drop_leading_blank(splitlines(entry))) IN
    IF lines = <<>> THEN [error |-> Reason("EmptyBulletEntry", label), lines |-> <<>>]
    ELSE IF item_first(lines[1]) = <<>>
    THEN [error |-> Reason("EmptyBulletEntry", label), lines |-> <<>>]
    ELSE IF \E k \in 2..Len(lines) : strip(lines[k]) = <<>>
    THEN [error |-> Reason("BlankLineInBullet", label), lines |-> <<>>]
    ELSE [error |-> Ok,
          lines |-> [k \in 1..Len(lines) |->
                        IF k = 1 THEN item_first(lines[1]) ELSE strip(lines[k])]]

format_bullet_lines(lines) ==
    [k \in 1..Len(lines) |-> IF k = 1 THEN <<"-", SP>> \o lines[1] ELSE <<SP, SP>> \o lines[k]]

extract_path_candidate(label) ==
    IF contains(label, <<SP, "(">>) /\ endswith(label, <<")">>)
    THEN strip(split1(label, <<SP, "(">>)[1])
    ELSE label

\* What the file system holds at root / candidate: "root" (it resolves to the
\* repository root), "outside_exists", "outside_missing" (it resolves outside the
\* root), "inside_exists", "inside_missing".  "." is the root and ".." its parent
\* whatever the tree holds; every other candidate is as the environment has it.
fs_kind(candidate) ==
    IF candidate = <<".">> THEN "root"
    ELSE IF candidate = <<".", ".">> THEN "outside_exists"
    ELSE oracle.fs

\* Path.exists() of root / candidate, and of its resolved path
path_exists(candidate) == fs_kind(candidate) \in {"root", "outside_exists", "inside_exists"}

\* whether _should_validate_path reaches its last line, the exists() query
should_validate_asks(candidate) ==
    /\ ~(contains(candidate, <<SP>>) \/ contains(candidate, <<TAB>>))
    /\ ~(contains(candidate, <<"/">>) \/ startswith(candidate, <<".">>)
         \/ contains(candidate, <<".">>))

should_validate_path(candidate) ==
    IF contains(candidate, <<SP>>) \/ contains(candidate, <<TAB>>) THEN FALSE
    ELSE IF contains(candidate, <<"/">>) \/ startswith(candidate, <<".">>)
            \/ contains(candidate, <<".">>)
    THEN TRUE
    ELSE path_exists(candidate)

\* a variant that takes a git that cannot be run as a report of deletion
is_deleted_in_git_lenient(path) == oracle.git \in {"deleted", "oserror"}

\* subprocess.run(git ls-files --deleted) raises OSError ("oserror"), or its output
\* lists the path ("deleted") or does not ("absent")
is_deleted_in_git(path) ==
    IF oracle.git = "oserror" THEN FALSE ELSE oracle.git = "deleted"

validate_path(path) ==
    IF fs_kind(path) = "root" THEN Reason("PathIsRoot", "--change")
    ELSE IF fs_kind(path) \in {"outside_exists", "outside_missing"}
    THEN Reason("PathOutsideRepo", "--change")
    ELSE IF ~path_exists(path) /\ ~is_deleted_in_git(path)
    THEN Reason("PathNotFound", "--change")
    ELSE Ok

\* the queries _should_validate_path and _validate_path make for one candidate
path_queries(candidate) ==
    (IF should_validate_asks(candidate) THEN <<"exists">> ELSE <<>>)
    \o (IF ~should_validate_path(candidate) THEN <<>>
        ELSE IF fs_kind(candidate) = "inside_missing" THEN <<"resolve", "exists", "deleted">>
        ELSE IF fs_kind(candidate) = "inside_exists" THEN <<"resolve", "exists">>
        ELSE <<"resolve">>)

\* a variant that looks at the description before it looks at the label
split_change_line_swapped(first) ==
    IF ~contains(first, <<":">>)
    THEN [error |-> Reason("MissingColon", "--change"), label |-> <<>>, description |-> <<>>]
    ELSE LET label == strip(split1(first, <<":">>)[1])
             description == strip(split1(first, <<":">>)[2])
         IN  IF description = <<>>
             THEN [error |-> Reason("MissingDescription", "--change"),
                   label |-> label, description |-> description]
             ELSE IF label = <<>>
             THEN [error |-> Reason("MissingLabel", "--change"),
                   label |-> label, description |-> description]
             ELSE [error |-> Ok, label |-> label, description |-> description]

\* format_message, lines 214-222: the first line of a change entry split at its
\* first colon into label and description
split_change_line(first) ==
    IF ~contains(first, <<":">>)
    THEN [error |-> Reason("MissingColon", "--change"), label |-> <<>>, description |-> <<>>]
    ELSE LET label == strip(split1(first, <<":">>)[1])
             description == strip(split1(first, <<":">>)[2])
         IN  IF label = <<>>
             THEN [error |-> Reason("MissingLabel", "--change"),
                   label |-> label, description |-> description]
             ELSE IF description = <<>>
             THEN [error |-> Reason("MissingDescription", "--change"),
                   label |-> label, description |-> description]
             ELSE [error |-> Ok, label |-> label, description |-> description]

\* the body of format_message's loop over changes, lines 213-227, for one entry: the
\* reason it raises (Ok if none), the entry's lines and the queries it makes
change_item(entry) ==
    LET sp == split_item_lines(entry, "--change entry") IN
    IF sp.error # Ok THEN [error |-> sp.error, lines |-> <<>>, queries |-> <<>>]
    ELSE LET c == split_change_line(sp.lines[1])
             path_candidate == extract_path_candidate(c.label)
         IN  IF c.error # Ok THEN [error |-> c.error, lines |-> <<>>, queries |-> <<>>]
             ELSE IF should_validate_path(path_candidate)
                     /\ validate_path(path_candidate) # Ok
             THEN [error |-> validate_path(path_candidate), lines |-> <<>>,
                   queries |-> path_queries(path_candidate)]
             ELSE [error |-> Ok,
                   lines |-> [sp.lines EXCEPT ![1] = c.label \o <<":", SP>> \o c.description],
                   queries |-> path_queries(path_candidate)]

\* raise ValueError(reason): format_message ends and returns nothing
Raise(reason) ==
    /\ pc' = "failed"
    /\ error' = reason
    /\ UNCHANGED <<subject, context, enables, changes, deferred, oracle, item,
                   context_lines, enable_lines, change_lines, deferred_lines,
                   text, verdict>>

\* a variant that takes a subject of whitespace alone as a subject
FormatSubject_nostrip ==
    /\ pc = "subject"
    /\ IF subject = <<>>
       THEN Raise(Reason("EmptySubject", "subject")) /\ UNCHANGED queries
       ELSE /\ pc' = "context"
            /\ UNCHANGED <<subject, context, enables, changes, deferred, oracle, item,
                           context_lines, enable_lines, change_lines, deferred_lines,
                           queries, error, text, verdict>>

\* format_message, lines 194-196
FormatSubject ==
    /\ pc = "subject"
    /\ IF strip(subject) = <<>>
       THEN Raise(Reason("EmptySubject", "subject")) /\ UNCHANGED queries
       ELSE /\ pc' = "context"
            /\ UNCHANGED <<subject, context, enables, changes, deferred, oracle, item,
                           context_lines, enable_lines, change_lines, deferred_lines,
                           queries, error, text, verdict>>

\* format_message, lines 198-200
FormatContext ==
    /\ pc = "context"
    /\ IF context = <<>>
       THEN Raise(Reason("MissingField", "--context")) /\ UNCHANGED queries
       ELSE LET r == split_context_lines(context) IN
            IF r.error # Ok
            THEN Raise(r.error) /\ UNCHANGED queries
            ELSE /\ context_lines' = r.lines
                 /\ pc' = "enable"
                 /\ item' = 1
                 /\ UNCHANGED <<subject, context, enables, changes, deferred, oracle,
                                enable_lines, change_lines, deferred_lines,
                                queries, error, text, verdict>>

\* format_message, lines 202-207: the emptiness check, then one entry per step
FormatEnable ==
    /\ pc = "enable"
    /\ IF enables = <<>>
       THEN Raise(Reason("MissingField", "--enable")) /\ UNCHANGED queries
       ELSE LET r == split_item_lines(enables[item], "--enable entry") IN
            IF r.error # Ok
            THEN Raise(r.error) /\ UNCHANGED queries
            ELSE /\ enable_lines' = enable_lines \o format_bullet_lines(r.lines)
                 /\ IF item < Len(enables)
                    THEN item' = item + 1 /\ pc' = pc
                    ELSE item' = 1 /\ pc' = "change"
                 /\ UNCHANGED <<subject, context, enables, changes, deferred, oracle,
                                context_lines, change_lines, deferred_lines,
                                queries, error, text, verdict>>

\* format_message, lines 209-227
FormatChange ==
    /\ pc = "change"
    /\ IF changes = <<>>
       THEN Raise(Reason("MissingField", "--change")) /\ UNCHANGED queries
       ELSE LET r == change_item(changes[item])
                asked == [k \in 1..Len(r.queries) |-> [item |-> item, q |-> r.queries[k]]]
            IN
            IF r.error # Ok
            THEN Raise(r.error) /\ queries' = queries \o asked
            ELSE /\ change_lines' = change_lines \o format_bullet_lines(r.lines)
                 /\ queries' = queries \o asked
                 /\ IF item < Len(changes)
                    THEN item' = item + 1 /\ pc' = pc
                    ELSE item' = 1 /\ pc' = "deferred"
                 /\ UNCHANGED <<subject, context, enables, changes, deferred, oracle,
                                context_lines, enable_lines, deferred_lines,
                                error, text, verdict>>

\* format_message, lines 229-234
FormatDeferred ==
    /\ pc = "deferred"
    /\ IF deferred = <<>>
       THEN Raise(Reason("MissingField", "--deferred")) /\ UNCHANGED queries
       ELSE LET r == split_item_lines(deferred[item], "--deferred entry") IN
            IF r.error # Ok
            THEN Raise(r.error) /\ UNCHANGED queries
            ELSE /\ deferred_lines' = deferred_lines \o format_bullet_lines(r.lines)
                 /\ IF item < Len(deferred)
                    THEN item' = item + 1 /\ pc' = pc
                    ELSE item' = 1 /\ pc' = "assemble"
                 /\ UNCHANGED <<subject, context, enables, changes, deferred, oracle,
                                context_lines, enable_lines, change_lines,
                                queries, error, text, verdict>>

\* format_message, lines 236-244: the returned text
assembled(subj, ctx, en, ch, de) ==
    join(<<subj, <<>>, H_Context>> \o ctx
         \o <<<<>>, H_Enables>> \o en
         \o <<<<>>, H_Changes>> \o ch
         \o <<<<>>, H_Deferred>> \o de) \o <<NL>>

FormatAssemble ==
    /\ pc = "assemble"
    /\ text' = assembled(strip(subject), context_lines, enable_lines, change_lines,
                         deferred_lines)
    /\ pc' = "formatted"
    /\ UNCHANGED <<subject, context, enables, changes, deferred, oracle, item,
                   context_lines, enable_lines, change_lines, deferred_lines,
                   queries, error, verdict>>

\* lint_message applied to a text: the formatter's, or one given as it is
Lint ==
    /\ pc \in {"formatted", "lint"}
    /\ verdict' = lint_message(text)
    /\ pc' = "linted"
    /\ UNCHANGED <<subject, context, enables, changes, deferred, oracle, item,
                   context_lines, enable_lines, change_lines, deferred_lines,
                   queries, error, text>>

----------------------------------------------------------------------------
(* The inputs the specifications draw from.                                 *)

MaxItems == 2
MaxDeferredItems == 1
MaxContextEntries == 5
MaxLabelPieces == 3
MaxEntryPieces == 4
MaxBodyLines == 2
MaxLongContext == 10
MaxPreambleLines == 3

\* every sequence over S of length at most n
SeqsUpTo(S, n) == UNION {[1..k -> S] : k \in 0..n}

\* the concatenation of a sequence of sequences
RECURSIVE Flatten(_)
Flatten(ss) == IF ss = <<>> THEN <<>> ELSE ss[1] \o Flatten(Tail(ss))

\* n copies of the sequence s, concatenated
RECURSIVE Repeat(_, _)
Repeat(s, n) == IF n = 0 THEN <<>> ELSE s \o Repeat(s, n - 1)

NoOracle == [fs |-> "inside_missing", git |-> "absent"]

Oracles ==
    [fs : {"root", "outside_exists", "outside_missing", "inside_exists", "inside_missing"},
     git : {"deleted", "absent", "oserror"}]

\* format_message is entered with its five arguments and an environment
FormatStart(s, c, e, ch, d, o) ==
    /\ subject = s
    /\ context = c
    /\ enables = e
    /\ changes = ch
    /\ deferred = d
    /\ oracle = o
    /\ pc = "subject"
    /\ item = 1
    /\ context_lines = <<>>
    /\ enable_lines = <<>>
    /\ change_lines = <<>>
    /\ deferred_lines = <<>>
    /\ queries = <<>>
    /\ error = Ok
    /\ text = <<>>
    /\ verdict = NotRun

\* lint_message is entered with a text
LintStart(t) ==
    /\ subject = <<>>
    /\ context = <<>>
    /\ enables = <<>>
    /\ changes = <<>>
    /\ deferred = <<>>
    /\ oracle = NoOracle
    /\ pc = "lint"
    /\ item = 1
    /\ context_lines = <<>>
    /\ enable_lines = <<>>
    /\ change_lines = <<>>
    /\ deferred_lines = <<>>
    /\ queries = <<>>
    /\ error = Ok
    /\ text = t
    /\ verdict = NotRun

A == <<"a">>

\* --- inputs in which every field is valid or invalid in its own way
OrderSubjects == {A, <<SP>>, <<"a", NL, "a">>}
OrderContexts == {<<>>, <<A>>, <<<<"a", NL, NL, NL, "a">>>>, <<H_Enables>>}
OrderEnableEntries == {A, <<>>, <<"a", NL, NL, "a">>}
OrderChangeEntries == {<<"a", ":", "a">>, A, <<":", "a">>}
OrderDeferredEntries == {A, <<>>}

InitOrder ==
    \E s \in OrderSubjects, c \in OrderContexts,
       e \in SeqsUpTo(OrderEnableEntries, MaxItems),
       ch \in SeqsUpTo(OrderChangeEntries, MaxItems),
       d \in SeqsUpTo(OrderDeferredEntries, MaxDeferredItems) :
        FormatStart(s, c, e, ch, d, NoOracle)

\* --- inputs that vary the context entries
ContextEntries == {<<>>, A, <<NL>>, <<"a", NL, "a">>, <<SP, "a", SP>>}

InitContext ==
    \E c \in SeqsUpTo(ContextEntries, MaxContextEntries) :
        FormatStart(A, c, <<A>>, <<<<"a", ":", "a">>>>, <<A>>, NoOracle)

\* --- inputs that vary one change entry and the environment
EntryPieces == {A, <<SP>>, <<":">>, <<"-", SP>>, <<NL>>, <<".">>}
LabelPieces == {A, <<".">>, <<"/">>, <<SP>>, <<TAB>>, <<SP, "(", "a", ")">>, <<")">>}

\* entries that vary where the colon, the marker and the line breaks are
ColonEntries == {Flatten(ps) : ps \in SeqsUpTo(EntryPieces, MaxEntryPieces)}

\* entries "label:a" that vary the label
LabelEntries == {Flatten(ps) \o <<":", "a">> : ps \in SeqsUpTo(LabelPieces, MaxLabelPieces)}

ColonOracles ==
    {[fs |-> "inside_exists", git |-> "absent"], [fs |-> "inside_missing", git |-> "absent"],
     [fs |-> "inside_missing", git |-> "deleted"]}

InitChange ==
    \/ \E ch \in ColonEntries, o \in ColonOracles :
            FormatStart(A, <<A>>, <<A>>, <<ch>>, <<A>>, o)
    \/ \E ch \in LabelEntries, o \in Oracles :
            FormatStart(A, <<A>>, <<A>>, <<ch>>, <<A>>, o)

\* --- texts given to lint_message as they are
BodyLines ==
    {<<>>, <<SP>>, A, <<"-", SP, "a">>, <<"-", SP, "a", ":", "a">>, <<SP, SP, "a">>,
     <<SP, SP>>, <<"-", SP>>, <<TAB, "a">>, <<"-", SP, "a", ":">>, <<"-", SP, ":", "a">>}

Bodies == SeqsUpTo(BodyLines, MaxBodyLines)

\* the body a well-formed message has in section i
GoodBody(i) == IF i = 1 THEN <<A>> ELSE <<<<"-", SP, "a", ":", "a">>>>

GoodBodies == [i \in 1..4 |-> GoodBody(i)]
GoodHeaders == [i \in 1..4 |-> <<headers[i].line>>]
GoodSeparators == [i \in 1..3 |-> 1]
GoodPreamble == <<A, <<>>>>

\* the lines of a message: the preamble, then per section the lines at its header's
\* place, its body and the blank lines after it
Document(pre, h, b, s) ==
    pre \o h[1] \o b[1] \o Repeat(<<<<>>>>, s[1])
        \o h[2] \o b[2] \o Repeat(<<<<>>>>, s[2])
        \o h[3] \o b[3] \o Repeat(<<<<>>>>, s[3])
        \o h[4] \o b[4]

\* one structural change to a well-formed message: a separator of 0 or 2 blank lines,
\* a header left out, or a header replaced by the Deferred: header
Structures ==
    {[h |-> GoodHeaders, s |-> GoodSeparators]}
    \cup {[h |-> GoodHeaders, s |-> [GoodSeparators EXCEPT ![k] = n]] :
            k \in 1..3, n \in {0, 2}}
    \cup {[h |-> [GoodHeaders EXCEPT ![k] = x], s |-> GoodSeparators] :
            k \in 1..4, x \in {<<>>, <<H_Deferred>>}}

LintDocuments ==
    \* one free body and one structural change
    {Document(GoodPreamble, st.h, [GoodBodies EXCEPT ![f] = b], st.s) :
        f \in 1..4, b \in Bodies, st \in Structures}
    \* two one-line bodies
    \cup {Document(GoodPreamble, GoodHeaders,
                   [GoodBodies EXCEPT ![f] = <<x>>, ![g] = <<y>>], GoodSeparators) :
            f \in 1..3, g \in 2..4, x \in BodyLines, y \in BodyLines}
    \* a free preamble
    \cup {Document(pre, st.h, GoodBodies, st.s) :
            pre \in SeqsUpTo({<<>>, <<SP>>, A}, MaxPreambleLines), st \in Structures}
    \* a long context, plain or with a blank line after each line but the last
    \cup {Document(GoodPreamble, GoodHeaders,
                   [GoodBodies EXCEPT ![1] = Repeat(<<A>>, n)], GoodSeparators) :
            n \in 0..MaxLongContext}
    \cup {Document(GoodPreamble, GoodHeaders,
                   [GoodBodies EXCEPT ![1] = Repeat(<<A, <<>>>>, n) \o <<A>>],
                   GoodSeparators) :
            n \in 0..MaxLongContext}

LintTexts ==
    {join(d) \o <<NL>> : d \in LintDocuments}
    \cup {join(d) : d \in {Document(GoodPreamble, GoodHeaders, GoodBodies, GoodSeparators)}}

InitLint == \E t \in LintTexts : LintStart(t)

----------------------------------------------------------------------------
(* The specifications.                                                      *)

NextFormat ==
    \/ FormatSubject
    \/ FormatContext
    \/ FormatEnable
    \/ FormatChange
    \/ FormatDeferred
    \/ FormatAssemble
    \/ Lint

NextLint == Lint

\* format_message on inputs whose fields are valid or invalid each in its own way
SpecOrder == InitOrder /\ [][NextFormat]_vars

\* format_message on varied context entries
SpecContext == InitContext /\ [][NextFormat]_vars

\* format_message on a varied change entry and environment
SpecChange == InitChange /\ [][NextFormat]_vars

\* lint_message on texts given as they are
SpecLint == InitLint /\ [][NextLint]_vars

Init == InitOrder
Next == NextFormat
Spec == SpecOrder

----------------------------------------------------------------------------
(* What a text is, read off the text alone: its lines, where its headers    *)
(* stand and what lies between them.                                        *)

\* the least and the greatest element of a non-empty set of integers
Least(S) == CHOOSE k \in S : \A j \in S : k <= j
Greatest(S) == CHOOSE k \in S : \A j \in S : k >= j

\* a line that is empty or holds only whitespace
Blank(line) == \A k \in 1..Len(line) : IsSpace(line[k])

\* lines without the empty lines at its end
WithoutEmptyTail(lines) ==
    LET filled == {k \in 1..Len(lines) : lines[k] # <<>>}
    IN  IF filled = {} THEN <<>> ELSE SubSeq(lines, 1, Greatest(filled))

\* the number of empty lines at the end of lines
EmptyTail(lines) == Len(lines) - Len(WithoutEmptyTail(lines))

\* where a header stands after line `before`: its first occurrence; 0 when the
\* header before it does not stand (before = 0) or it does not occur
PosAfter(lines, before, i) ==
    LET places == {k \in (before + 1)..Len(lines) : lines[k] = headers[i].line}
    IN  IF before = 0 \/ places = {} THEN 0 ELSE Least(places)

\* the lines between the header at line from and the header at line to
Between(lines, from, to) ==
    IF from = 0 \/ to = 0 THEN <<>> ELSE SubSeq(lines, from + 1, to - 1)

\* The layout of a message: its lines; pos[i], where header i stands (Context: at
\* the third line, every later header at its first occurrence after the header
\* before it, 0 when it does not stand there); body[i], the lines between header i
\* and the next header (the end, for the last) less the empty lines at their end;
\* sep[i], the number of those empty lines.
Layout(lines) ==
    LET p1 == IF Len(lines) >= 3 /\ lines[3] = headers[1].line THEN 3 ELSE 0
        p2 == PosAfter(lines, p1, 2)
        p3 == PosAfter(lines, p2, 3)
        p4 == PosAfter(lines, p3, 4)
        r1 == Between(lines, p1, p2)
        r2 == Between(lines, p2, p3)
        r3 == Between(lines, p3, p4)
        r4 == Between(lines, p4, Len(lines) + 1)
    IN  [lines |-> lines,
         pos |-> <<p1, p2, p3, p4>>,
         body |-> <<WithoutEmptyTail(r1), WithoutEmptyTail(r2), WithoutEmptyTail(r3),
                    WithoutEmptyTail(r4)>>,
         sep |-> <<EmptyTail(r1), EmptyTail(r2), EmptyTail(r3), 0>>]

\* the layout of the text given to lint_message
Message == Layout(WithoutEmptyTail(splitlines(text)))

\* the subject and the empty line after it are there
PreambleOk(m) ==
    /\ Len(m.lines) >= 3
    /\ ~Blank(m.lines[1])
    /\ m.lines[2] = <<>>

\* header i and the header after it stand, one empty line apart from the body
Delimited(m, i) ==
    /\ m.pos[i] # 0
    /\ i < 4 => m.pos[i + 1] # 0 /\ m.sep[i] = 1

\* section i passes every check lint_message makes of it
SectionFine(m, i) ==
    /\ Delimited(m, i)
    /\ m.body[i] # <<>>
    /\ validator(i, m.body[i]) = Ok

NonBlankCount(lines) == Cardinality({k \in 1..Len(lines) : ~Blank(lines[k])})

AdjacentBlanks(lines) == \E k \in 1..(Len(lines) - 1) : Blank(lines[k]) /\ Blank(lines[k + 1])

Linted == pc = "linted"

----------------------------------------------------------------------------
(* The validator's claims, checked under SpecLint.                          *)

\* C2: whenever lint_message returns Ok, the Context body has between 1 and 8
\* non-blank lines, its first and last line are non-blank and no two adjacent
\* lines are blank, a blank line being empty or whitespace only.
C2_ContextBodyShape ==
    (Linted /\ verdict = Ok) =>
        LET body == Message.body[1] IN
        /\ NonBlankCount(body) \in 1..8
        /\ ~Blank(body[1])
        /\ ~Blank(body[Len(body)])
        /\ ~AdjacentBlanks(body)

\* C3: lint_message returns Ok only if the four headers stand in order from the
\* third line on, each followed by its body and each of the first three bodies
\* followed by exactly one empty line; once the checks before it pass, a header
\* that does not stand where it is expected fails with MissingHeader naming it,
\* and a next header with zero or several empty lines before it with BadSeparator.
C3_HeaderStructure ==
    Linted =>
        LET m == Message IN
        /\ verdict = Ok =>
              \A i \in 1..4 :
                  /\ m.pos[i] # 0
                  /\ m.lines[m.pos[i]] = headers[i].line
                  /\ i > 1 => m.pos[i] > m.pos[i - 1]
                  /\ m.body[i] # <<>>
                  /\ i < 4 => m.sep[i] = 1
        /\ (PreambleOk(m) /\ m.pos[1] = 0) =>
              verdict = Reason("MissingHeader", "Context:")
        /\ \A i \in 1..3 :
              (PreambleOk(m) /\ m.pos[i] # 0 /\ \A j \in 1..(i - 1) : SectionFine(m, j)) =>
                  /\ m.pos[i + 1] = 0 =>
                        verdict = Reason("MissingHeader", headers[i + 1].name)
                  /\ (m.pos[i + 1] # 0 /\ m.sep[i] # 1) =>
                        verdict = Reason("BadSeparator", "")

\* C3's case: Deferred: stands where Context: is expected
C3_Witness ==
    /\ Linted
    /\ PreambleOk(Message)
    /\ Message.lines[3] = H_Deferred
    /\ verdict = Reason("MissingHeader", "Context:")

\* --- the shapes of a bullet section's lines, read off the line alone

BulletMarked(line) == Len(line) >= 2 /\ line[1] = "-" /\ line[2] = SP
BulletContent(line) == SubSeq(line, 3, Len(line))
Indented(line) ==
    \/ Len(line) >= 2 /\ line[1] = SP /\ line[2] = SP
    \/ Len(line) >= 1 /\ line[1] = TAB

\* the content has a colon, with text before its first colon and text after it
LabelAndDescription(content) ==
    LET colons == {k \in 1..Len(content) : content[k] = ":"} IN
    /\ colons # {}
    /\ ~Blank(SubSeq(content, 1, Least(colons) - 1))
    /\ ~Blank(SubSeq(content, Least(colons) + 1, Len(content)))

BulletBefore(body, k) == \E j \in 1..(k - 1) : BulletMarked(body[j])

\* section i is reached with its body cut out: every header stands, every separator
\* is one empty line, no body is empty and the sections before i are accepted
Reached(m, i) ==
    /\ PreambleOk(m)
    /\ \A j \in 1..4 : Delimited(m, j) /\ m.body[j] # <<>>
    /\ \A j \in 1..(i - 1) : validator(j, m.body[j]) = Ok

\* what lint_message says of section i once it is reached: its reason when the
\* verdict names the section, Ok when the message passes or fails further on
SectionVerdict(i) == IF verdict.arg = headers[i].label THEN verdict ELSE Ok

\* C4, as claimed: a line is fine when it is a bullet with text or a continuation
\* with text after a bullet of the section
ClaimedLineOk(body, k) ==
    \/ BulletMarked(body[k]) /\ ~Blank(BulletContent(body[k]))
    \/ Indented(body[k]) /\ ~Blank(body[k]) /\ BulletBefore(body, k)

ClaimedKind(body, k) ==
    IF body[k] = <<>> THEN "BlankLineInSection"
    ELSE IF Indented(body[k]) /\ ~BulletBefore(body, k) THEN "OrphanContinuation"
    ELSE "BadLineFormat"

\* the validator's separate messages for a bullet without text and for an indented
\* line without text, counted as the line-shape violation they are
Coarse(reason) ==
    IF reason.kind \in {"EmptyBullet", "EmptyContinuation"}
    THEN Reason("BadLineFormat", reason.arg)
    ELSE reason

\* C4 (as claimed): for each bullet section (enables, changes, deferred) the body is
\* accepted exactly when every line is a bullet with text or a continuation with
\* text after a bullet of the section; otherwise the reason is that of the first
\* offending line: BlankLineInSection, OrphanContinuation or BadLineFormat.
C4_AsClaimed ==
    Linted =>
        LET m == Message IN
        \A i \in 2..4 :
            Reached(m, i) =>
                LET body == m.body[i]
                    bad == {k \in 1..Len(body) : ~ClaimedLineOk(body, k)}
                IN  Coarse(SectionVerdict(i)) =
                        IF bad = {} THEN Ok
                        ELSE Reason(ClaimedKind(body, Least(bad)), headers[i].label)

\* C4, as the code has it: in Changes a bullet also needs a label and a description
AmendedLineOk(i, body, k) ==
    \/ /\ BulletMarked(body[k])
       /\ ~Blank(BulletContent(body[k]))
       /\ i = 3 => LabelAndDescription(BulletContent(body[k]))
    \/ Indented(body[k]) /\ ~Blank(body[k]) /\ BulletBefore(body, k)

AmendedKind(body, k) ==
    IF body[k] = <<>> THEN "BlankLineInSection"
    ELSE IF BulletMarked(body[k])
    THEN IF Blank(BulletContent(body[k])) THEN "EmptyBullet" ELSE "BadChangeFormat"
    ELSE IF Indented(body[k])
    THEN IF BulletBefore(body, k) THEN "EmptyContinuation" ELSE "OrphanContinuation"
    ELSE "BadLineFormat"

\* C4 (amended): the body of a bullet section is accepted exactly when every line
\* is a bullet with text (in Changes: with a label and a description around its
\* first colon) or an indented line with text after a bullet of the same section;
\* otherwise the reason is that of the first offending line: BlankLineInSection
\* for an empty line, EmptyBullet for "- " and whitespace, BadChangeFormat for a
\* Changes bullet without label or description, OrphanContinuation for an indented
\* line with no bullet before it in the section, EmptyContinuation for an indented
\* whitespace line after a bullet, BadLineFormat for any other line.
C4_BulletSection ==
    Linted =>
        LET m == Message IN
        \A i \in 2..4 :
            Reached(m, i) =>
                LET body == m.body[i]
                    bad == {k \in 1..Len(body) : ~AmendedLineOk(i, body, k)}
                IN  SectionVerdict(i) =
                        IF bad = {} THEN Ok
                        ELSE Reason(AmendedKind(body, Least(bad)), headers[i].label)

\* C4's case: the section before has a bullet, and a continuation line that opens
\* the Changes body is still an orphan
C4_Witness ==
    /\ Linted
    /\ Reached(Message, 3)
    /\ BulletMarked(Message.body[2][1])
    /\ Indented(Message.body[3][1])
    /\ ~Blank(Message.body[3][1])
    /\ verdict = Reason("OrphanContinuation", "Changes")

\* what the checks of section i come to, in the order lint_message makes them
SectionOutcome(m, i) ==
    IF i < 4 /\ m.pos[i + 1] = 0 THEN Reason("MissingHeader", headers[i + 1].name)
    ELSE IF i < 4 /\ m.sep[i] # 1 THEN Reason("BadSeparator", "")
    ELSE IF m.body[i] = <<>> THEN Reason("EmptySection", headers[i].name)
    ELSE validator(i, m.body[i])

\* C5 (as claimed): the reason reported is that of the violation met first going
\* down the lines: while a line of the current section's body violates the grammar,
\* a badly separated next header, which comes later, is not what is reported.
C5_AsClaimed ==
    Linted =>
        LET m == Message IN
        \A i \in 1..3 :
            (/\ PreambleOk(m)
             /\ m.pos[i] # 0 /\ m.pos[i + 1] # 0
             /\ \A j \in 1..(i - 1) : SectionFine(m, j)
             /\ m.body[i] # <<>>
             /\ validator(i, m.body[i]) # Ok)
                => verdict = validator(i, m.body[i])

\* C5 (amended): lint_message reports one reason, that of the first check to fail
\* in this order: empty message, blank subject, no empty line after the subject,
\* Context: at the third line, then section by section: the next header is found,
\* exactly one empty line stands before it, the body is not empty, the body's
\* rules.  A missing or badly separated next header is so reported ahead of a
\* violation in the current section's body, and no violation of a later section
\* is reported while an earlier section fails a check.
C5_CheckOrder ==
    Linted =>
        LET m == Message
            failing == {i \in 1..4 : SectionOutcome(m, i) # Ok}
        IN  verdict =
                IF m.lines = <<>> THEN Reason("EmptyMessage", "")
                ELSE IF Blank(m.lines[1]) THEN Reason("EmptySubject", "")
                ELSE IF ~PreambleOk(m) THEN Reason("MissingBlankAfterSubject", "")
                ELSE IF m.pos[1] = 0 THEN Reason("MissingHeader", "Context:")
                ELSE IF failing = {} THEN Ok
                ELSE SectionOutcome(m, Least(failing))

\* C5's case: a line of the enables body is no bullet and the next header has no
\* empty line before it; the separator is what is reported
C5_Witness ==
    /\ Linted
    /\ PreambleOk(Message)
    /\ SectionFine(Message, 1)
    /\ Message.pos[3] # 0
    /\ Message.sep[2] = 0
    /\ validator(2, Message.body[2]) = Reason("BadLineFormat", "What this enables")
    /\ verdict = Reason("BadSeparator", "")

\* C8 (as claimed): the formatter and the validator allow the same numbers of
\* non-blank context lines: in a message whose other sections are well formed, a
\* Context body with no empty line at either end and no two adjacent blank lines
\* is accepted by the validator exactly when the formatter accepts its lines as
\* context, and is too long for one exactly when it is for the other.
C8_SameBound ==
    Linted =>
        LET m == Message
            body == m.body[1]
            formatted == split_context_lines(body)
        IN  (/\ PreambleOk(m)
             /\ Delimited(m, 1)
             /\ body # <<>>
             /\ body[1] # <<>>
             /\ ~AdjacentBlanks(body)
             /\ \A j \in 2..4 : SectionFine(m, j))
                => /\ verdict = Ok <=> formatted.error = Ok
                   /\ verdict.kind = "ContextTooLong"
                        <=> formatted.error.kind = "ContextTooLong"

----------------------------------------------------------------------------
(* The formatter's claims.                                                  *)

Failed == pc = "failed"
Returned == pc \in {"formatted", "linted"}

\* s without the whitespace at its ends
Trim(s) ==
    LET inked == {k \in 1..Len(s) : ~IsSpace(s[k])}
    IN  IF inked = {} THEN <<>> ELSE SubSeq(s, Least(inked), Greatest(inked))

\* C1: whenever format_message returns a text, lint_message returns Ok on it,
\* whatever characters the inputs hold (a line break in the subject, a context line
\* that reads as a section header).  Checked under SpecOrder.
C1_RoundTrip == Linted => verdict = Ok

\* --- each field judged by itself

SubjectError == IF Blank(subject) THEN Reason("EmptySubject", "subject") ELSE Ok

ContextError ==
    IF context = <<>> THEN Reason("MissingField", "--context")
    ELSE split_context_lines(context).error

EnableError ==
    LET bad == {k \in 1..Len(enables) : split_item_lines(enables[k], "--enable entry").error # Ok}
    IN  IF enables = <<>> THEN Reason("MissingField", "--enable")
        ELSE IF bad = {} THEN Ok
        ELSE split_item_lines(enables[Least(bad)], "--enable entry").error

ChangeError ==
    LET bad == {k \in 1..Len(changes) : change_item(changes[k]).error # Ok}
    IN  IF changes = <<>> THEN Reason("MissingField", "--change")
        ELSE IF bad = {} THEN Ok
        ELSE change_item(changes[Least(bad)]).error

DeferredError ==
    LET bad == {k \in 1..Len(deferred) :
                    split_item_lines(deferred[k], "--deferred entry").error # Ok}
    IN  IF deferred = <<>> THEN Reason("MissingField", "--deferred")
        ELSE IF bad = {} THEN Ok
        ELSE split_item_lines(deferred[Least(bad)], "--deferred entry").error

\* the reason of the first invalid field in the order subject, context, enable,
\* change, deferred; Ok when every field is valid
FirstFieldError ==
    LET errors == <<SubjectError, ContextError, EnableError, ChangeError, DeferredError>>
        bad == {f \in 1..5 : errors[f] # Ok}
    IN  IF bad = {} THEN Ok ELSE errors[Least(bad)]

\* C6: format_message returns one complete text or fails with one reason and no
\* text; the reason is that of the first invalid field in the order subject,
\* context, enable, change, deferred, and within enable, change and deferred that
\* of the first invalid entry, whatever the later fields and entries hold.
\* Checked under SpecOrder.
C6_FirstInvalidField ==
    /\ Failed => error = FirstFieldError /\ error # Ok /\ text = <<>>
    /\ Returned =>
          /\ FirstFieldError = Ok /\ error = Ok
          /\ text[Len(text)] = NL
          /\ \A i \in 1..4 : \E k \in 1..Len(splitlines(text)) :
                splitlines(text)[k] = headers[i].line
          /\ splitlines(text)[Len(splitlines(text))] = deferred_lines[Len(deferred_lines)]
    /\ ~Returned => text = <<>>
    /\ ~Failed => error = Ok
    /\ FirstFieldError # Ok => pc \notin {"assemble", "formatted", "linted"}

\* C6's case: the first enable entry is empty, the second holds a blank line and a
\* change entry has no colon; the first enable entry's reason is the one reported
C6_Witness ==
    /\ Failed
    /\ Len(enables) = 2 /\ enables[1] = <<>> /\ enables[2] = <<"a", NL, NL, "a">>
    /\ changes # <<>> /\ changes[1] = A
    /\ error = Reason("EmptyBulletEntry", "--enable entry")

\* --- the context as the claim flattens it

\* an entry's lines, an empty entry being one empty line
ClaimedEntryLines(entry) == IF entry = <<>> THEN <<<<>>>> ELSE splitlines(entry)

ClaimedContextLines == Flatten([k \in 1..Len(context) |-> ClaimedEntryLines(context[k])])

\* lines without the blank lines at both ends
WithoutBlankEnds(lines) ==
    LET inked == {k \in 1..Len(lines) : ~Blank(lines[k])}
    IN  IF inked = {} THEN <<>> ELSE SubSeq(lines, Least(inked), Greatest(inked))

\* C7 (the formatter's half): whenever the context, flattened entry by entry into
\* one line sequence and stripped of the blank lines at its ends, has two adjacent
\* blank lines, format_message fails with ConsecutiveBlankLines; this includes the
\* context entries "a", "", "", "b".  Checked under SpecContext.
C7_ConsecutiveRejected ==
    (pc \notin {"subject", "context"} /\ AdjacentBlanks(WithoutBlankEnds(ClaimedContextLines)))
        => Failed /\ error = Reason("ConsecutiveBlankLines", "--context")

\* --- a change entry read off the entry alone (SpecChange gives one change entry)

ChangeDone == pc \notin {"subject", "context", "enable", "change"}

\* the entry's first line, stripped of blank lines and of a leading "- "
FirstLine == split_item_lines(changes[1], "--change entry").lines[1]

Colons(line) == {k \in 1..Len(line) : line[k] = ":"}
LabelOf(line) == Trim(SubSeq(line, 1, Least(Colons(line)) - 1))
DescriptionOf(line) == Trim(SubSeq(line, Least(Colons(line)) + 1, Len(line)))

\* C9: a change entry's first line, stripped of blank lines and of a leading "- ",
\* fails with MissingColon when it has no colon, else with MissingLabel when the
\* text before its first colon is blank, else with MissingDescription when the
\* text after it is blank, each before any query of the file system or of git;
\* an entry that passes is rendered "- label: description", which the validator's
\* Changes rule accepts.  Checked under SpecChange.
C9_ChangeClassification ==
    (ChangeDone /\ split_item_lines(changes[1], "--change entry").error = Ok) =>
        LET first == FirstLine IN
        /\ Colons(first) = {} =>
              Failed /\ error = Reason("MissingColon", "--change") /\ queries = <<>>
        /\ (Colons(first) # {} /\ LabelOf(first) = <<>>) =>
              Failed /\ error = Reason("MissingLabel", "--change") /\ queries = <<>>
        /\ (Colons(first) # {} /\ LabelOf(first) # <<>> /\ DescriptionOf(first) = <<>>) =>
              Failed /\ error = Reason("MissingDescription", "--change") /\ queries = <<>>
        /\ ~Failed =>
              /\ change_lines[1]
                    = <<"-", SP>> \o LabelOf(first) \o <<":", SP>> \o DescriptionOf(first)
              /\ validate_bullet_section(change_lines, "Changes", TRUE) = Ok

\* C9's case: the label looks like a path and nothing follows the colon
C9_Witness ==
    /\ Failed
    /\ changes[1] = <<"a", ".", ":">>
    /\ oracle.fs = "inside_missing"
    /\ error = Reason("MissingDescription", "--change")

\* the label without a " (...)" at its end
CandidateOf(label) ==
    LET opens == {k \in 1..(Len(label) - 1) : label[k] = SP /\ label[k + 1] = "("}
    IN  IF opens # {} /\ label[Len(label)] = ")"
        THEN Trim(SubSeq(label, 1, Least(opens) - 1))
        ELSE label

Has(s, c) == \E k \in 1..Len(s) : s[k] = c

PathLike(candidate) ==
    /\ ~Has(candidate, SP) /\ ~Has(candidate, TAB)
    /\ \/ Has(candidate, "/")
       \/ Has(candidate, ".")
       \/ fs_kind(candidate) \in {"root", "outside_exists", "inside_exists"}

\* C10: for a change entry with a label and a description, whose path candidate is
\* the label without a " (...)" at its end: a path-like candidate (no space or tab,
\* and a "/" or a "." in it or a file under the root) fails with PathIsRoot when it
\* resolves to the root, PathOutsideRepo when it resolves outside, PathNotFound
\* when it does not exist and git does not report it deleted, a git that cannot be
\* run counting as not deleted; it passes when it exists or is reported deleted; a
\* candidate that is not path-like is never rejected.  Checked under SpecChange.
C10_PathGuard ==
    (/\ ChangeDone
     /\ split_item_lines(changes[1], "--change entry").error = Ok
     /\ Colons(FirstLine) # {}
     /\ LabelOf(FirstLine) # <<>>
     /\ DescriptionOf(FirstLine) # <<>>) =>
        LET candidate == CandidateOf(LabelOf(FirstLine))
            kind == fs_kind(candidate)
        IN  IF ~PathLike(candidate) THEN ~Failed
            ELSE IF kind = "root" THEN Failed /\ error = Reason("PathIsRoot", "--change")
            ELSE IF kind \in {"outside_exists", "outside_missing"}
            THEN Failed /\ error = Reason("PathOutsideRepo", "--change")
            ELSE IF kind = "inside_missing" /\ oracle.git # "deleted"
            THEN Failed /\ error = Reason("PathNotFound", "--change")
            ELSE ~Failed

\* C10's case: the path is missing and git cannot be run
C10_Witness ==
    /\ Failed
    /\ changes[1] = <<"a", "/", "a", ":", "a">>
    /\ oracle = [fs |-> "inside_missing", git |-> "oserror"]
    /\ queries # <<>> /\ queries[Len(queries)].q = "deleted"
    /\ error = Reason("PathNotFound", "--change")

====
